---- MODULE Spec2Model ----
(***************************************************************************)
(* Artify server (src/index.js): an Express application over two MongoDB   *)
(* collections, artworks and favorites.  The file holds two variants of    *)
(* the application: the stand-alone one (lines 1-462), whose handlers pass *)
(* the id straight to `new ObjectId(id)`, and the serverless one (lines    *)
(* 464-1005), whose handlers call connectDB() and check                    *)
(* ObjectId.isValid(id) first.  A handler is modelled one store call per   *)
(* step: every `await` on the store is a point where other requests run.   *)
(***************************************************************************)
EXTENDS Integers, Sequences, FiniteSets, TLC

\* ---------------------------------------------------------------- bounds
NumIds == 2
NumUsers == 2
MaxOps == 3
MaxLikeOps == 4
MaxInflight == 2

\* ------------------------------------------------------------ value sets
\* The ids the store generates on insert (well-formed 24-hex ObjectIds).
ObjectIds == 1..NumIds
\* An id string that is not a well-formed ObjectId, such as "not-an-id".
MalformedId == 0
IdStrings == ObjectIds \cup {MalformedId}
Users == 1..NumUsers
Variants == {"standalone", "serverless"}
Visibilities == {"Public", "Private"}

\* A JavaScript number: NaN, or the decimal (-1)^neg * mant / 10^exp, kept
\* with no trailing zero in its fraction, so that equal numbers are equal.
Zero == [nan |-> FALSE, neg |-> FALSE, mant |-> 0, exp |-> 0]
NaN == [nan |-> TRUE, neg |-> FALSE, mant |-> 0, exp |-> 0]

RECURSIVE Decimal(_, _, _)
Decimal(neg, mant, exp) ==
    IF exp > 0 /\ mant % 10 = 0 THEN Decimal(neg, mant \div 10, exp - 1)
    ELSE [nan |-> FALSE, neg |-> neg, mant |-> mant, exp |-> exp]

\* What req.body.price can be after express.json(): no such field, a string
\* (its characters), or a number.
Undefined == [type |-> "undefined", chars |-> <<>>, num |-> Zero]
Str(chars) == [type |-> "string", chars |-> chars, num |-> Zero]
Num(n) == [type |-> "number", chars |-> <<>>, num |-> n]

\* The prices the requests of the price runs carry: none, "", "12.50",
\* "abc", "-5", 12.5 and 0.
PriceInputs ==
    {Undefined, Str(<<>>), Str(<<"1", "2", ".", "5", "0">>),
     Str(<<"a", "b", "c">>), Str(<<"-", "5">>),
     Num(Decimal(FALSE, 125, 1)), Num(Zero)}

\* Request bodies of create and update: the fields $set replaces (title
\* stands for title, category, mediumTools, description, dimensions, image),
\* the visibility and the price.
Bodies == {[title |-> "Sunset", visibility |-> "Public",
            price |-> Str(<<"1", "2", ".", "5", "0">>)],
           [title |-> "Dawn", visibility |-> "Private", price |-> Undefined]}

\* The bodies of the price runs: one title, every price.
PriceBodies ==
    {[title |-> "Sunset", visibility |-> "Public", price |-> p] : p \in PriceInputs}

VARIABLES
    variant,      \* which of the two applications of the file is running
    db,           \* connectDB's cached handle: TRUE once connected
    artworks,     \* the artworks collection, in insertion order
    favorites,    \* the favorites collection, in insertion order
    nextId,       \* how many ObjectIds insertOne has generated for artworks
    clock,        \* the value new Date() returns; one tick per request
    inflight,     \* the requests between two awaits of their handler
    last,         \* the last response sent, with what its request did
    prev,         \* the toggle response sent before `last`, if it was one
    deletedOk     \* ids whose DELETE was answered with success

vars == <<variant, db, artworks, favorites, nextId, clock, inflight, last,
          prev, deletedOk>>

\* ------------------------------------------------------- the store layer
ObjectIdIsValid(id) == id \in ObjectIds

Includes(s, x) == \E i \in DOMAIN s : s[i] = x

First(s) == IF s = <<>> THEN <<>> ELSE <<s[1]>>

\* artworkCollection.findOne({_id}): <<>> is null, <<d>> the document.
FindArtwork(coll, id) == First(SelectSeq(coll, LAMBDA d : d._id = id))

\* favoritesCollection.findOne({artworkId, userId})
FindFavorite(coll, id, u) ==
    First(SelectSeq(coll, LAMBDA f : f.artworkId = id /\ f.userId = u))

\* The place of the first document a filter matches, 0 when none does:
\* {_id: id} on the artworks, {artworkId, userId} on the favorites.
IndexOfId(coll, id) ==
    IF \E i \in DOMAIN coll : coll[i]._id = id
    THEN CHOOSE i \in DOMAIN coll :
             coll[i]._id = id /\ \A j \in 1..(i - 1) : coll[j]._id # id
    ELSE 0

IsFavoriteOf(f, id, u) == f.artworkId = id /\ f.userId = u

IndexOfFavorite(coll, id, u) ==
    IF \E i \in DOMAIN coll : IsFavoriteOf(coll[i], id, u)
    THEN CHOOSE i \in DOMAIN coll :
             IsFavoriteOf(coll[i], id, u)
             /\ \A j \in 1..(i - 1) : ~IsFavoriteOf(coll[j], id, u)
    ELSE 0

RemoveAt(s, i) == IF i = 0 THEN s ELSE SubSeq(s, 1, i - 1) \o SubSeq(s, i + 1, Len(s))

\* artworkCollection.deleteOne({_id}): the first match goes.
DeleteArtwork(coll, id) == RemoveAt(coll, IndexOfId(coll, id))

\* favoritesCollection.deleteOne({artworkId, userId}): the first match goes.
DeleteFavorite(coll, id, u) == RemoveAt(coll, IndexOfFavorite(coll, id, u))

\* favoritesCollection.deleteMany({artworkId})
DeleteFavoritesOf(coll, id) == SelectSeq(coll, LAMBDA f : f.artworkId # id)

\* What the store answers a call on the artworks by id: a document or none.
Answer(a) == IF a = <<>> THEN "none" ELSE "one"

\* updateOne's matchedCount for a filter on _id
MatchedCount(coll, id) == IF FindArtwork(coll, id) = <<>> THEN 0 ELSE 1

\* updateOne's modifiedCount, deleteOne's deletedCount
ModifiedCount(coll, new) == IF new = coll THEN 0 ELSE 1
DeletedCount(coll, new) == Len(coll) - Len(new)

\* `if(!artwork)`, `if(result) ... else`: the handler's test of a findOne
IsNull(a) == a = <<>>

\* `result.modifiedCount > 0 || result.matchedCount > 0`
UpdateMatched(modifiedCount, matchedCount) == modifiedCount > 0 \/ matchedCount > 0

\* A slip: the test lets a deletedCount of 0 through.
DeletedAny_NotNegative(deletedCount) == deletedCount >= 0

\* `result.deletedCount > 0`
DeletedAny(deletedCount) == deletedCount > 0

\* A slip: the $inc is left out of the update.
PushLike_NoInc(d, u) == [d EXCEPT !.likedBy = Append(@, u)]

\* {$push: {likedBy: u}, $inc: {likesCount: 1}}
PushLike(d, u) ==
    [d EXCEPT !.likedBy = Append(@, u), !.likesCount = @ + 1]

\* A slip: the $pull is left out of the update.
PullLike_KeepsUser(d, u) == [d EXCEPT !.likesCount = @ - 1]

\* {$pull: {likedBy: u}, $inc: {likesCount: -1}}: $pull removes every u.
PullLike(d, u) ==
    [d EXCEPT !.likedBy = SelectSeq(@, LAMBDA x : x # u), !.likesCount = @ - 1]

\* The decimal digits, as characters and as values.
DigitChars == <<"0", "1", "2", "3", "4", "5", "6", "7", "8", "9">>
IsDigit(c) == \E d \in DOMAIN DigitChars : DigitChars[d] = c
DigitValue(c) == (CHOOSE d \in DOMAIN DigitChars : DigitChars[d] = c) - 1

\* The white space parseFloat skips at the start of its argument.
RECURSIVE TrimStart(_)
TrimStart(s) == IF s # <<>> /\ s[1] = " " THEN TrimStart(Tail(s)) ELSE s

\* The longest prefix of digits, and the number it writes.
RECURSIVE TakeDigits(_)
TakeDigits(s) ==
    IF s # <<>> /\ IsDigit(s[1]) THEN <<s[1]>> \o TakeDigits(Tail(s)) ELSE <<>>

RECURSIVE DigitsValue(_)
DigitsValue(ds) ==
    IF ds = <<>> THEN 0
    ELSE 10 * DigitsValue(SubSeq(ds, 1, Len(ds) - 1)) + DigitValue(ds[Len(ds)])

\* parseFloat of a string: leading white space is skipped, then the longest
\* prefix that reads [+-] digits [. digits] is the number, whatever follows
\* it; NaN when that prefix has no digit.  (Exponents and "Infinity", which
\* no price of PriceInputs contains, are not read.)
ParseFloatOfString(chars) ==
    LET s1 == TrimStart(chars)
        signed == s1 # <<>> /\ s1[1] \in {"+", "-"}
        neg == signed /\ s1[1] = "-"
        s2 == IF signed THEN Tail(s1) ELSE s1
        ip == TakeDigits(s2)
        s3 == SubSeq(s2, Len(ip) + 1, Len(s2))
        fp == IF s3 # <<>> /\ s3[1] = "." THEN TakeDigits(Tail(s3)) ELSE <<>>
    IN  IF ip = <<>> /\ fp = <<>> THEN NaN
        ELSE Decimal(neg, DigitsValue(ip \o fp), Len(fp))

RECURSIVE Pow10(_)
Pow10(k) == IF k = 0 THEN 1 ELSE 10 * Pow10(k - 1)

RECURSIVE DigitsOf(_)
DigitsOf(n) ==
    IF n < 10 THEN <<DigitChars[n + 1]>>
    ELSE DigitsOf(n \div 10) \o <<DigitChars[(n % 10) + 1]>>

\* The k digits of the fraction f / 10^k
RECURSIVE FractionDigits(_, _)
FractionDigits(f, k) ==
    IF k = 0 THEN <<>>
    ELSE FractionDigits(f \div 10, k - 1) \o <<DigitChars[(f % 10) + 1]>>

\* ToString of a number, which parseFloat applies to an argument that is
\* not a string.
NumberToString(n) ==
    IF n.nan THEN <<"N", "a", "N">>
    ELSE (IF n.neg /\ n.mant # 0 THEN <<"-">> ELSE <<>>)
         \o DigitsOf(n.mant \div Pow10(n.exp))
         \o (IF n.exp > 0
             THEN <<".">> \o FractionDigits(n.mant % Pow10(n.exp), n.exp)
             ELSE <<>>)

\* parseFloat(x)
ParseFloat(x) ==
    IF x.type = "string" THEN ParseFloatOfString(x.chars)
    ELSE IF x.type = "number" THEN ParseFloatOfString(NumberToString(x.num))
    ELSE NaN

\* The test of `x ? ... : ...`: undefined, "", 0 and NaN are falsy.
Truthy(x) ==
    IF x.type = "string" THEN x.chars # <<>>
    ELSE IF x.type = "number" THEN ~x.num.nan /\ x.num.mant # 0
    ELSE FALSE

\* `req.body.price ? parseFloat(req.body.price) : 0`
ParsePrice(x) == IF Truthy(x) THEN ParseFloat(x) ELSE Zero

\* The document POST /api/artworks inserts.
ArtworkData(id, b, email, now) ==
    [_id |-> id, title |-> b.title, visibility |-> b.visibility,
     price |-> ParsePrice(b.price),
     userEmail |-> email, likesCount |-> 0, likedBy |-> <<>>,
     createdAt |-> now, updatedAt |-> 0]

\* {$set: updateData} of PUT /api/artworks/:id
SetUpdateData(d, b, now) ==
    [d EXCEPT !.title = b.title, !.visibility = b.visibility,
              !.price = ParsePrice(b.price), !.updatedAt = now]

\* artworkCollection.updateOne({_id}, {$set: updateData})
UpdateSet(coll, id, b, now) ==
    [j \in DOMAIN coll |-> IF j = IndexOfId(coll, id)
                           THEN SetUpdateData(coll[j], b, now)
                           ELSE coll[j]]

\* The document POST /api/favorites/:artworkId inserts.
FavoriteData(id, u, artwork, now) ==
    [artworkId |-> id, userId |-> u, artwork |-> artwork, createdAt |-> now]

\* .sort({createdAt: -1}): insertion sort, newest first, ties in store order.
RECURSIVE SortNewestFirst(_)
SortNewestFirst(s) ==
    IF s = <<>> THEN <<>>
    ELSE LET newest(i) == \A k \in DOMAIN s : s[k].createdAt <= s[i].createdAt
             m == CHOOSE i \in DOMAIN s : newest(i) /\ \A j \in 1..(i - 1) : ~newest(j)
         IN  <<s[m]>> \o SortNewestFirst(RemoveAt(s, m))

\* .limit(n)
Limit(s, n) == SubSeq(s, 1, IF Len(s) < n THEN Len(s) ELSE n)

FeaturedLimit == 6

\* -------------------------------------------------------------- responses
NoBody == [kind |-> "none", keys |-> {}, success |-> "absent", error |-> "",
           flag |-> FALSE, likes |-> 0, count |-> 0, data |-> <<>>]

\* {success: false, error: msg}
ErrorBody(msg) ==
    [NoBody EXCEPT !.kind = "object", !.keys = {"success", "error"},
                   !.success = "false", !.error = msg]

\* {error: msg}, the catch of GET /arts and GET /api/artworks/featured
BareErrorBody(msg) ==
    [NoBody EXCEPT !.kind = "object", !.keys = {"error"}, !.error = msg]

\* {success: false, message: ...}, the 404 of PUT and DELETE
MessageErrorBody ==
    [NoBody EXCEPT !.kind = "object", !.keys = {"success", "message"},
                   !.success = "false"]

\* {success: false, error: msg, message: err.message}, the catch of POST
CreateErrorBody(msg) ==
    [NoBody EXCEPT !.kind = "object", !.keys = {"success", "error", "message"},
                   !.success = "false", !.error = msg]

\* A slip: the envelope is sent without its success field.
OkBody_NoSuccess(keys) == [NoBody EXCEPT !.kind = "object", !.keys = keys]

\* {success: true, ...}
OkBody(keys) ==
    [NoBody EXCEPT !.kind = "object", !.keys = {"success"} \cup keys,
                   !.success = "true"]

\* res.send(result) of an array
ArrayBody(docs) == [NoBody EXCEPT !.kind = "array", !.data = docs]

\* What one (artwork id, user) pair looks like in the two collections.
View(arts, favs, id, u) ==
    LET a == FindArtwork(arts, id)
    IN  [exists |-> a # <<>>,
         member |-> a # <<>> /\ Includes(a[1].likedBy, u),
         likes |-> IF a = <<>> THEN 0 ELSE a[1].likesCount,
         liked |-> IF a = <<>> THEN 0 ELSE Len(a[1].likedBy),
         users |-> IF a = <<>> THEN 0
                   ELSE Cardinality({a[1].likedBy[k] : k \in DOMAIN a[1].likedBy}),
         nfav |-> Len(SelectSeq(favs, LAMBDA f : IsFavoriteOf(f, id, u)))]

NoView == [exists |-> FALSE, member |-> FALSE, likes |-> 0, liked |-> 0,
           users |-> 0, nfav |-> 0]

\* The body of a request that sends none.
NoInput == [title |-> "", visibility |-> "", price |-> Undefined]

NoResponse ==
    [rid |-> 0, route |-> "none", id |-> 0, userId |-> 0, input |-> NoInput,
     status |-> 0, body |-> NoBody,
     calls |-> <<>>, found |-> "n/a", wrote |-> FALSE, solo |-> TRUE,
     peers |-> {}, pre |-> NoView, post |-> NoView]

NoPrev ==
    [rid |-> 0, route |-> "other", id |-> 0, userId |-> 0, status |-> 0,
     flag |-> FALSE, likes |-> 0, solo |-> TRUE, peers |-> {},
     pre |-> NoView, post |-> NoView]

ToggleRoutes == {"like", "favorite"}

\* What `prev` keeps of a response: the toggles only.
Summary(r) ==
    IF r.route \in ToggleRoutes
    THEN [rid |-> r.rid, route |-> r.route, id |-> r.id, userId |-> r.userId,
          status |-> r.status, flag |-> r.body.flag, likes |-> r.body.likes,
          solo |-> r.solo, peers |-> r.peers, pre |-> r.pre, post |-> r.post]
    ELSE NoPrev

\* ---------------------------------------------------------------- requests
\* A request as it arrives; rid tells two identical requests apart, and
\* peers are the requests it has been in flight together with.
NewRequest(route, id, u, b) ==
    [rid |-> clock + 1, route |-> route, id |-> id, userId |-> u, input |-> b,
     pc |-> "start", isLiked |-> FALSE, artwork |-> <<>>, calls |-> <<>>,
     found |-> "n/a", wrote |-> FALSE, solo |-> inflight = {},
     peers |-> {q.rid : q \in inflight},
     pre |-> View(artworks, favorites, id, u)]

CanStart == Cardinality(inflight) < MaxInflight

\* A request that arrives overlaps every request in flight.
Overlapped(rs) ==
    {[r EXCEPT !.solo = FALSE, !.peers = @ \cup {clock + 1}] : r \in rs}

\* connectDB(): the cached handle, or client.connect(), which may reject.
\* The stand-alone variant listens only once run() has connected.
ConnectOutcomes == IF db THEN {TRUE} ELSE {TRUE, FALSE}

\* res.status(status).send(body) by request r, whose handler then returns.
Respond(r, status, body) ==
    /\ last' = [rid |-> r.rid, route |-> r.route, id |-> r.id,
                userId |-> r.userId, input |-> r.input, status |-> status,
                body |-> body, calls |-> r.calls, found |-> r.found,
                wrote |-> r.wrote, solo |-> r.solo, peers |-> r.peers,
                pre |-> r.pre,
                post |-> View(artworks', favorites', r.id, r.userId)]
    /\ prev' = Summary(last)

Init ==
    /\ variant \in Variants
    /\ db = (variant = "standalone")
    /\ artworks = <<>>
    /\ favorites = <<>>
    /\ nextId = 0
    /\ clock = 0
    /\ inflight = {}
    /\ last = NoResponse
    /\ prev = NoPrev
    /\ deletedOk = {}

\* ------------------------------------------------------------ the handlers
\* A request arrives: time passes, and connectDB() caches the handle.
Arrive(c) ==
    /\ CanStart
    /\ clock' = clock + 1
    /\ db' = (db \/ c)

\* How far a handler gets before its first store call.  Serverless:
\* connectDB() rejects ("reject"), or ObjectId.isValid(id) fails ("invalid").
\* Stand-alone: `new ObjectId(id)` throws on a malformed id ("throws").
Entry(id, c) ==
    IF variant = "serverless"
    THEN IF ~c THEN "reject"
         ELSE IF ~ObjectIdIsValid(id) THEN "invalid"
         ELSE "ok"
    ELSE IF ~ObjectIdIsValid(id) THEN "throws" ELSE "ok"

\* The same for the routes that build no ObjectId.
EntryNoId(c) == IF variant = "serverless" /\ ~c THEN "reject" ELSE "ok"

EntryStatus(e) == IF e = "invalid" THEN 400 ELSE 500

EntryBody(e, msg) ==
    IF e = "invalid" THEN ErrorBody("Invalid artwork ID") ELSE ErrorBody(msg)

\* r after one more store call, which changed a collection or did not.
Called(r, call, changed) ==
    [r EXCEPT !.calls = Append(@, call), !.wrote = @ \/ changed]

Others(r) == IF r \in inflight THEN inflight \ {r} ELSE Overlapped(inflight)

\* Request r, become q by its last step, answers.
Done(r, q, status, body) ==
    /\ Respond(q, status, body)
    /\ inflight' = Others(r)

Continue(r, r2) ==
    /\ inflight' = Others(r) \cup {r2}
    /\ UNCHANGED <<last, prev>>

\* POST /api/artworks/:id/like, to its first await: findOne
LikeStart(id, u) ==
    \E c \in ConnectOutcomes, ok \in BOOLEAN :
        LET r == NewRequest("like", id, u, NoInput)
            e == Entry(id, c)
            a == FindArtwork(artworks, id)
            q == Called(r, "artworks.findOne", FALSE)
            msg == "Failed to update like"
        IN  /\ Arrive(c)
            /\ UNCHANGED <<variant, artworks, favorites, nextId, deletedOk>>
            /\ IF e # "ok" THEN Done(r, r, EntryStatus(e), EntryBody(e, msg))
               ELSE IF ~ok THEN Done(r, q, 500, ErrorBody(msg))
               ELSE IF IsNull(a)
                    THEN Done(r, [q EXCEPT !.found = Answer(a)], 404,
                              ErrorBody("Artwork not found"))
                    ELSE Continue(r, [q EXCEPT !.found = Answer(a), !.pc = "update",
                                               !.isLiked = Includes(a[1].likedBy, u)])

\* A slip that would hide the race: the update is applied only where the
\* membership is still the one the handler read.
LikeChange_Guarded(d, isLiked, u) ==
    IF isLiked # Includes(d.likedBy, u) THEN d
    ELSE IF isLiked THEN PullLike(d, u) ELSE PushLike(d, u)

\* The update the like handler sends, decided by the isLiked it read.
LikeChange(d, isLiked, u) == IF isLiked THEN PullLike(d, u) ELSE PushLike(d, u)

\* A slip: the update is sent with an empty filter, to every document.
UpdateLike_EveryId(coll, id, isLiked, u) ==
    [j \in DOMAIN coll |-> LikeChange(coll[j], isLiked, u)]

\* artworkCollection.updateOne({_id}, <the like update>): the document the
\* filter matches, if there is one, is rewritten.
UpdateLike(coll, id, isLiked, u) ==
    [j \in DOMAIN coll |-> IF j = IndexOfId(coll, id)
                           THEN LikeChange(coll[j], isLiked, u)
                           ELSE coll[j]]

\* ... its second await: updateOne
LikeUpdate(r) ==
    /\ r.route = "like" /\ r.pc = "update"
    /\ \E ok \in BOOLEAN :
        LET new == UpdateLike(artworks, r.id, r.isLiked, r.userId)
        IN  /\ UNCHANGED <<variant, db, favorites, nextId, clock, deletedOk>>
            /\ IF ~ok
               THEN /\ UNCHANGED artworks
                    /\ Done(r, Called(r, "artworks.updateOne", FALSE), 500,
                            ErrorBody("Failed to update like"))
               ELSE /\ artworks' = new
                    /\ Continue(r, [Called(r, "artworks.updateOne", new # artworks)
                                       EXCEPT !.pc = "reread"])

\* ... its third await: findOne, then the response.  A null updatedArtwork
\* makes `updatedArtwork.likesCount` throw, which the catch answers.
LikeReread(r) ==
    /\ r.route = "like" /\ r.pc = "reread"
    /\ \E ok \in BOOLEAN :
        LET a == FindArtwork(artworks, r.id)
            q == Called(r, "artworks.findOne", FALSE)
        IN  /\ UNCHANGED <<variant, db, artworks, favorites, nextId, clock, deletedOk>>
            /\ IF ~ok \/ IsNull(a)
               THEN Done(r, q, 500, ErrorBody("Failed to update like"))
               ELSE Done(r, q, 200, [OkBody({"isLiked", "likes"})
                                    EXCEPT !.flag = ~r.isLiked,
                                           !.likes = a[1].likesCount])

\* POST /api/favorites/:artworkId, to its first await: favorites.findOne
FavoriteStart(id, u) ==
    \E c \in ConnectOutcomes, ok \in BOOLEAN :
        LET r == NewRequest("favorite", id, u, NoInput)
            e == Entry(id, c)
            f == FindFavorite(favorites, id, u)
            q == Called(r, "favorites.findOne", FALSE)
            msg == "Failed to update favorites"
        IN  /\ Arrive(c)
            /\ UNCHANGED <<variant, artworks, favorites, nextId, deletedOk>>
            /\ IF e # "ok" THEN Done(r, r, EntryStatus(e), EntryBody(e, msg))
               ELSE IF ~ok THEN Done(r, q, 500, ErrorBody(msg))
               ELSE Continue(r, [q EXCEPT !.pc = IF IsNull(f) THEN "lookup" ELSE "delete"])

\* ... the branch of an existing favorite: deleteOne, then the response
FavoriteDelete(r) ==
    /\ r.route = "favorite" /\ r.pc = "delete"
    /\ \E ok \in BOOLEAN :
        LET new == DeleteFavorite(favorites, r.id, r.userId)
        IN  /\ UNCHANGED <<variant, db, artworks, nextId, clock, deletedOk>>
            /\ IF ~ok
               THEN /\ UNCHANGED favorites
                    /\ Done(r, Called(r, "favorites.deleteOne", FALSE), 500,
                            ErrorBody("Failed to update favorites"))
               ELSE /\ favorites' = new
                    /\ Done(r, Called(r, "favorites.deleteOne", new # favorites), 200,
                            [OkBody({"isFavorited"}) EXCEPT !.flag = FALSE])

\* ... the other branch: artworks.findOne, whose result, null or not, is kept
FavoriteLookup(r) ==
    /\ r.route = "favorite" /\ r.pc = "lookup"
    /\ \E ok \in BOOLEAN :
        LET q == Called(r, "artworks.findOne", FALSE)
        IN  /\ UNCHANGED <<variant, db, artworks, favorites, nextId, clock, deletedOk>>
            /\ IF ~ok
               THEN Done(r, q, 500, ErrorBody("Failed to update favorites"))
               ELSE Continue(r, [q EXCEPT !.pc = "insert",
                                          !.artwork = FindArtwork(artworks, r.id)])

\* ... then insertOne, and the response
FavoriteInsert(r) ==
    /\ r.route = "favorite" /\ r.pc = "insert"
    /\ \E ok \in BOOLEAN :
        /\ UNCHANGED <<variant, db, artworks, nextId, clock, deletedOk>>
        /\ IF ~ok
           THEN /\ UNCHANGED favorites
                /\ Done(r, Called(r, "favorites.insertOne", FALSE), 500,
                        ErrorBody("Failed to update favorites"))
           ELSE /\ favorites' = Append(favorites,
                                       FavoriteData(r.id, r.userId, r.artwork, clock))
                /\ Done(r, Called(r, "favorites.insertOne", TRUE), 200,
                        [OkBody({"isFavorited"}) EXCEPT !.flag = TRUE])

\* DELETE /api/artworks/:id, to its first await: artworks.deleteOne
DeleteStart(id) ==
    \E c \in ConnectOutcomes, ok \in BOOLEAN :
        LET r == NewRequest("delete", id, 0, NoInput)
            e == Entry(id, c)
            new == DeleteArtwork(artworks, id)
            q == [Called(r, "artworks.deleteOne", new # artworks)
                     EXCEPT !.found = Answer(FindArtwork(artworks, id))]
            msg == "Failed to delete artwork"
        IN  /\ Arrive(c)
            /\ UNCHANGED <<variant, favorites, nextId, deletedOk>>
            /\ IF e # "ok"
               THEN /\ UNCHANGED artworks
                    /\ Done(r, r, EntryStatus(e), EntryBody(e, msg))
               ELSE IF ~ok
               THEN /\ UNCHANGED artworks
                    /\ Done(r, Called(r, "artworks.deleteOne", FALSE), 500, ErrorBody(msg))
               ELSE /\ artworks' = new
                    /\ IF DeletedAny(DeletedCount(artworks, new))
                       THEN Continue(r, [q EXCEPT !.pc = "cascade"])
                       ELSE Done(r, q, 404, MessageErrorBody)

\* ... its second await: favorites.deleteMany, then the response
DeleteCascade(r) ==
    /\ r.route = "delete" /\ r.pc = "cascade"
    /\ \E ok \in BOOLEAN :
        LET new == DeleteFavoritesOf(favorites, r.id)
        IN  /\ UNCHANGED <<variant, db, artworks, nextId, clock>>
            /\ IF ~ok
               THEN /\ UNCHANGED <<favorites, deletedOk>>
                    /\ Done(r, Called(r, "favorites.deleteMany", FALSE), 500,
                            ErrorBody("Failed to delete artwork"))
               ELSE /\ favorites' = new
                    /\ deletedOk' = deletedOk \cup {r.id}
                    /\ Done(r, Called(r, "favorites.deleteMany", new # favorites), 200,
                            OkBody({"message"}))

\* A handler with one store call: it arrives, calls and answers in one step.
\* `fail` answers a rejected connectDB() or a store call that throws.
Unchanged == UNCHANGED <<variant, artworks, favorites, nextId, deletedOk>>

\* GET /arts
GetArts ==
    \E c \in ConnectOutcomes, ok \in BOOLEAN :
        LET r == NewRequest("arts", 0, 0, NoInput)
            q == Called(r, "artworks.find", FALSE)
            fail == BareErrorBody("Failed to fetch arts")
        IN  /\ Arrive(c) /\ Unchanged
            /\ IF EntryNoId(c) # "ok" THEN Done(r, r, 500, fail)
               ELSE IF ~ok THEN Done(r, q, 500, fail)
               ELSE Done(r, q, 200, ArrayBody(artworks))

\* GET /api/artworks?visibility=; no parameter (vis = "") means 'Public'
GetArtworks(vis) ==
    \E c \in ConnectOutcomes, ok \in BOOLEAN :
        LET r == NewRequest("list", 0, 0, NoInput)
            q == Called(r, "artworks.find", FALSE)
            visibility == IF vis = "" THEN "Public" ELSE vis
            fail == ErrorBody("Failed to fetch artworks")
        IN  /\ Arrive(c) /\ Unchanged
            /\ IF EntryNoId(c) # "ok" THEN Done(r, r, 500, fail)
               ELSE IF ~ok THEN Done(r, q, 500, fail)
               ELSE Done(r, q, 200,
                         [OkBody({"data"}) EXCEPT !.data =
                             SelectSeq(artworks, LAMBDA d : d.visibility = visibility)])

\* GET /api/artworks/featured
GetFeatured ==
    \E c \in ConnectOutcomes, ok \in BOOLEAN :
        LET r == NewRequest("featured", 0, 0, NoInput)
            q == Called(r, "artworks.find", FALSE)
            fail == BareErrorBody("Failed to fetch featured arts")
        IN  /\ Arrive(c) /\ Unchanged
            /\ IF EntryNoId(c) # "ok" THEN Done(r, r, 500, fail)
               ELSE IF ~ok THEN Done(r, q, 500, fail)
               ELSE Done(r, q, 200,
                         ArrayBody(Limit(SortNewestFirst(artworks), FeaturedLimit)))

\* GET /api/artworks/user/:userId
GetUserArtworks(u) ==
    \E c \in ConnectOutcomes, ok \in BOOLEAN :
        LET r == NewRequest("userArtworks", 0, u, NoInput)
            q == Called(r, "artworks.find", FALSE)
            fail == ErrorBody("Failed to fetch user artworks")
        IN  /\ Arrive(c) /\ Unchanged
            /\ IF EntryNoId(c) # "ok" THEN Done(r, r, 500, fail)
               ELSE IF ~ok THEN Done(r, q, 500, fail)
               ELSE Done(r, q, 200,
                         [OkBody({"data"}) EXCEPT !.data = SortNewestFirst(
                             SelectSeq(artworks, LAMBDA d : d.userEmail = u))])

\* GET /api/artworks/:id
GetArtwork(id) ==
    \E c \in ConnectOutcomes, ok \in BOOLEAN :
        LET r == NewRequest("get", id, 0, NoInput)
            e == Entry(id, c)
            a == FindArtwork(artworks, id)
            q == Called(r, "artworks.findOne", FALSE)
            msg == "Failed to fetch artwork details"
        IN  /\ Arrive(c) /\ Unchanged
            /\ IF e # "ok" THEN Done(r, r, EntryStatus(e), EntryBody(e, msg))
               ELSE IF ~ok THEN Done(r, q, 500, ErrorBody(msg))
               ELSE IF IsNull(a)
                    THEN Done(r, [q EXCEPT !.found = Answer(a)], 404,
                              ErrorBody("Artwork not found"))
                    ELSE Done(r, [q EXCEPT !.found = Answer(a)], 200,
                              [OkBody({"data"}) EXCEPT !.data = a])

\* GET /api/artworks/:id/liked/:userId
GetLiked(id, u) ==
    \E c \in ConnectOutcomes, ok \in BOOLEAN :
        LET r == NewRequest("liked", id, u, NoInput)
            e == Entry(id, c)
            a == FindArtwork(artworks, id)
            q == Called(r, "artworks.findOne", FALSE)
            msg == "Failed to check like status"
        IN  /\ Arrive(c) /\ Unchanged
            /\ IF e # "ok" THEN Done(r, r, EntryStatus(e), EntryBody(e, msg))
               ELSE IF ~ok THEN Done(r, q, 500, ErrorBody(msg))
               ELSE IF IsNull(a)
                    THEN Done(r, [q EXCEPT !.found = Answer(a)], 404,
                              ErrorBody("Artwork not found"))
                    ELSE Done(r, [q EXCEPT !.found = Answer(a)], 200,
                              [OkBody({"isLiked"}) EXCEPT
                                  !.flag = Includes(a[1].likedBy, u)])

\* A slip: the listing looks each favorite's artwork up in the artworks.
Snapshots_Live(favs) ==
    [i \in DOMAIN favs |-> FindArtwork(artworks, favs[i].artworkId)]

\* result.map(fav => fav.artwork): each snapshot is <<>> (null) or <<d>>.
Snapshots(favs) ==
    [i \in DOMAIN favs |-> favs[i].artwork]

\* GET /api/favorites/user/:userId
GetUserFavorites(u) ==
    \E c \in ConnectOutcomes, ok \in BOOLEAN :
        LET r == NewRequest("userFavorites", 0, u, NoInput)
            q == Called(r, "favorites.find", FALSE)
            fail == ErrorBody("Failed to fetch favorites")
        IN  /\ Arrive(c) /\ Unchanged
            /\ IF EntryNoId(c) # "ok" THEN Done(r, r, 500, fail)
               ELSE IF ~ok THEN Done(r, q, 500, fail)
               ELSE Done(r, q, 200,
                         [OkBody({"data"}) EXCEPT !.data = Snapshots(SortNewestFirst(
                             SelectSeq(favorites, LAMBDA f : f.userId = u)))])

\* GET /api/favorites/:artworkId/:userId
GetFavorited(id, u) ==
    \E c \in ConnectOutcomes, ok \in BOOLEAN :
        LET r == NewRequest("favorited", id, u, NoInput)
            e == Entry(id, c)
            q == Called(r, "favorites.findOne", FALSE)
            msg == "Failed to check favorite status"
        IN  /\ Arrive(c) /\ Unchanged
            /\ IF e # "ok" THEN Done(r, r, EntryStatus(e), EntryBody(e, msg))
               ELSE IF ~ok THEN Done(r, q, 500, ErrorBody(msg))
               ELSE Done(r, q, 200, [OkBody({"isFavorited"}) EXCEPT
                                     !.flag = FindFavorite(favorites, id, u) # <<>>])

\* GET /api/users/:userEmail/artworks/count
GetCount(u) ==
    \E c \in ConnectOutcomes, ok \in BOOLEAN :
        LET r == NewRequest("count", 0, u, NoInput)
            q == Called(r, "artworks.countDocuments", FALSE)
            fail == ErrorBody("Failed to count user artworks")
        IN  /\ Arrive(c) /\ Unchanged
            /\ IF EntryNoId(c) # "ok" THEN Done(r, r, 500, fail)
               ELSE IF ~ok THEN Done(r, q, 500, fail)
               ELSE Done(r, q, 200, [OkBody({"count"}) EXCEPT !.count =
                         Len(SelectSeq(artworks, LAMBDA d : d.userEmail = u))])

\* POST /api/artworks.  insertOne answers with the insertedId or throws, so
\* the handler's 400 branch (a falsy insertedId) is never taken.
CreateArtwork(b, email) ==
    \E c \in ConnectOutcomes, ok \in BOOLEAN :
        LET r == NewRequest("create", 0, email, b)
            fail == CreateErrorBody("Failed to add artwork")
        IN  /\ Arrive(c)
            /\ nextId < NumIds
            /\ UNCHANGED <<variant, favorites, deletedOk>>
            /\ IF EntryNoId(c) # "ok" \/ ~ok
               THEN /\ UNCHANGED <<artworks, nextId>>
                    /\ Done(r, IF EntryNoId(c) # "ok" THEN r
                            ELSE Called(r, "artworks.insertOne", FALSE), 500, fail)
               ELSE /\ nextId' = nextId + 1
                    /\ artworks' = Append(artworks,
                                          ArtworkData(nextId + 1, b, email, clock + 1))
                    /\ Done(r, [Called(r, "artworks.insertOne", TRUE) EXCEPT !.id = nextId + 1],
                            200, OkBody({"message", "id"}))

\* PUT /api/artworks/:id
UpdateArtwork(id, b) ==
    \E c \in ConnectOutcomes, ok \in BOOLEAN :
        LET r == NewRequest("update", id, 0, b)
            e == Entry(id, c)
            new == UpdateSet(artworks, id, b, clock + 1)
            q == [Called(r, "artworks.updateOne", new # artworks)
                     EXCEPT !.found = Answer(FindArtwork(artworks, id))]
            msg == "Failed to update artwork"
        IN  /\ Arrive(c)
            /\ UNCHANGED <<variant, favorites, nextId, deletedOk>>
            /\ IF e # "ok"
               THEN /\ UNCHANGED artworks
                    /\ Done(r, r, EntryStatus(e), EntryBody(e, msg))
               ELSE IF ~ok
               THEN /\ UNCHANGED artworks
                    /\ Done(r, Called(r, "artworks.updateOne", FALSE), 500, ErrorBody(msg))
               ELSE /\ artworks' = new
                    /\ IF UpdateMatched(ModifiedCount(artworks, new),
                                        MatchedCount(artworks, id))
                       THEN Done(r, q, 200, OkBody({"message"}))
                       ELSE Done(r, q, 404, MessageErrorBody)

\* GET /: 'Hello World!' (stand-alone) or {status, message} (serverless)
GetRoot ==
    LET r == NewRequest("root", 0, 0, NoInput)
    IN  /\ Arrive(db) /\ Unchanged
        /\ Done(r, r, 200, IF variant = "standalone"
                        THEN [NoBody EXCEPT !.kind = "text"]
                        ELSE [NoBody EXCEPT !.kind = "object",
                                            !.keys = {"status", "message"}])

\* GET /health, a route of the serverless variant only
GetHealth ==
    LET r == NewRequest("health", 0, 0, NoInput)
    IN  /\ variant = "serverless"
        /\ Arrive(db) /\ Unchanged
        /\ Done(r, r, 200, [NoBody EXCEPT !.kind = "object",
                                       !.keys = {"status", "timestamp"}])

\* ------------------------------------------------------- the specifications
\* More requests may arrive.
May == clock < MaxOps

\* Requests overlap freely: one arrives, or a handler in flight resumes
\* after an await.
Next ==
    \/ May /\ GetArts
    \/ May /\ \E vis \in Visibilities \cup {""} : GetArtworks(vis)
    \/ May /\ GetFeatured
    \/ May /\ \E u \in Users : GetUserArtworks(u)
    \/ May /\ \E id \in IdStrings : GetArtwork(id)
    \/ May /\ \E id \in IdStrings, u \in Users : LikeStart(id, u)
    \/ May /\ \E id \in IdStrings, u \in Users : GetLiked(id, u)
    \/ May /\ \E id \in IdStrings, u \in Users : FavoriteStart(id, u)
    \/ May /\ \E u \in Users : GetUserFavorites(u)
    \/ May /\ \E id \in IdStrings, u \in Users : GetFavorited(id, u)
    \/ May /\ \E u \in Users : GetCount(u)
    \/ May /\ \E b \in Bodies, u \in Users : CreateArtwork(b, u)
    \/ May /\ \E id \in IdStrings, b \in Bodies : UpdateArtwork(id, b)
    \/ May /\ \E id \in IdStrings : DeleteStart(id)
    \/ May /\ GetRoot
    \/ May /\ GetHealth
    \/ \E r \in inflight : LikeUpdate(r)
    \/ \E r \in inflight : LikeReread(r)
    \/ \E r \in inflight : FavoriteDelete(r)
    \/ \E r \in inflight : FavoriteLookup(r)
    \/ \E r \in inflight : FavoriteInsert(r)
    \/ \E r \in inflight : DeleteCascade(r)

Spec == Init /\ [][Next]_vars

\* The like routes, and the routes that make and unmake the artworks they
\* act on, overlapping freely, over longer runs.
LikeMay == clock < MaxLikeOps

LikeNext ==
    \/ LikeMay /\ \E b \in Bodies, u \in Users : CreateArtwork(b, u)
    \/ LikeMay /\ \E id \in IdStrings, u \in Users : LikeStart(id, u)
    \/ LikeMay /\ \E id \in IdStrings : DeleteStart(id)
    \/ \E r \in inflight : LikeUpdate(r)
    \/ \E r \in inflight : LikeReread(r)
    \/ \E r \in inflight : DeleteCascade(r)

LikeSpec == Init /\ [][LikeNext]_vars

\* The same routes with requests one at a time: none arrives while another
\* is in flight.
SeqLikeMay == LikeMay /\ inflight = {}

SeqLikeNext ==
    \/ SeqLikeMay /\ \E b \in Bodies, u \in Users : CreateArtwork(b, u)
    \/ SeqLikeMay /\ \E id \in IdStrings, u \in Users : LikeStart(id, u)
    \/ SeqLikeMay /\ \E id \in IdStrings : DeleteStart(id)
    \/ \E r \in inflight : LikeUpdate(r)
    \/ \E r \in inflight : LikeReread(r)
    \/ \E r \in inflight : DeleteCascade(r)

SeqLikeSpec == Init /\ [][SeqLikeNext]_vars

\* The routes that take, change and list the snapshots of artworks: one
\* artwork is created, favorites are toggled on every well-formed id, and
\* updates and likes go to the stored artwork.  A request arrives when none
\* is in flight, or while favorite toggles wait between their read of the
\* artwork and their insertOne.
StoredIds == {artworks[i]._id : i \in DOMAIN artworks}

SnapshotMay == LikeMay /\ \A r \in inflight : r.pc = "insert"

SnapshotNext ==
    \/ SnapshotMay /\ nextId = 0 /\ \E b \in Bodies, u \in Users : CreateArtwork(b, u)
    \/ SnapshotMay /\ \E id \in ObjectIds, u \in Users : FavoriteStart(id, u)
    \/ SnapshotMay /\ \E id \in StoredIds, b \in Bodies : UpdateArtwork(id, b)
    \/ SnapshotMay /\ \E id \in StoredIds, u \in Users : LikeStart(id, u)
    \/ SnapshotMay /\ \E u \in Users : GetUserFavorites(u)
    \/ \E r \in inflight : FavoriteDelete(r)
    \/ \E r \in inflight : FavoriteLookup(r)
    \/ \E r \in inflight : FavoriteInsert(r)
    \/ \E r \in inflight : LikeUpdate(r)
    \/ \E r \in inflight : LikeReread(r)

SnapshotSpec == Init /\ [][SnapshotNext]_vars

\* The routes that write and read a price, with every price of PriceInputs.
PriceNext ==
    \/ May /\ \E b \in PriceBodies, u \in Users : CreateArtwork(b, u)
    \/ May /\ \E id \in IdStrings, b \in PriceBodies : UpdateArtwork(id, b)
    \/ May /\ \E id \in IdStrings : GetArtwork(id)

PriceSpec == Init /\ [][PriceNext]_vars

\* ------------------------------------------------------------------ claims
UsersIn(likedBy) == {likedBy[k] : k \in DOMAIN likedBy}

IsToggle(x, route) == x.route = route /\ x.status = 200 /\ x.solo

\* Two toggles of one route by one user on one id, answered one after the
\* other with success, neither overlapping any other request.
TogglePair(route) ==
    /\ IsToggle(prev, route) /\ IsToggle(last, route)
    /\ prev.id = last.id /\ prev.userId = last.userId

\* C1: with like-toggle requests executed one at a time, every artwork's
\* likesCount equals the number of users in its likedBy, from creation on.
C1_LikesCountIsLikedBySize ==
    \A i \in DOMAIN artworks :
        /\ artworks[i].likesCount = Cardinality(UsersIn(artworks[i].likedBy))
        /\ artworks[i].likesCount = Len(artworks[i].likedBy)

\* Two users like one artwork, one request after the other.
C1_Witness ==
    /\ last.route = "like" /\ last.status = 200
    /\ \E i \in DOMAIN artworks :
           artworks[i]._id = last.id /\ Len(artworks[i].likedBy) = 2

\* C2: two like toggles by one user on one artwork, in sequence with nothing
\* in between and both answered with success, restore the user's membership
\* in likedBy and the likesCount, and report opposite isLiked values; on a
\* fresh artwork the answers are (true, 1) and then (false, 0).
C2_LikeTwiceRestores ==
    TogglePair("like") =>
        /\ last.post.member = prev.pre.member
        /\ last.post.likes = prev.pre.likes
        /\ last.body.flag # prev.flag
        /\ (prev.pre.likes = 0 /\ prev.pre.liked = 0) =>
               /\ prev.flag = TRUE /\ prev.likes = 1
               /\ last.body.flag = FALSE /\ last.body.likes = 0

\* A user who likes the artwork unlikes it and likes it again.
C2_Witness ==
    /\ TogglePair("like")
    /\ prev.pre.member /\ ~prev.flag /\ last.body.flag

\* C3: two favorite toggles by one user on one id, in sequence with nothing
\* in between, restore the existence of the Favorite record, and after each
\* toggle the record exists exactly if the answer said isFavorited true.
C3_FavoriteTwiceRestores ==
    /\ TogglePair("favorite") => ((last.post.nfav > 0) = (prev.pre.nfav > 0))
    /\ IsToggle(last, "favorite") => ((last.post.nfav > 0) = last.body.flag)

\* C4: at most one Favorite record per (artworkId, userId) pair, whatever the
\* interleaving of favorite toggles and artwork deletes.
C4_OneFavoritePerPair ==
    \A i, j \in DOMAIN favorites :
        (favorites[i].artworkId = favorites[j].artworkId
         /\ favorites[i].userId = favorites[j].userId) => i = j

\* C5: once a delete of an artwork has been answered with success, the
\* artwork is gone and no Favorite record with its id remains.
C5_DeleteCascades ==
    \A id \in deletedOk :
        /\ FindArtwork(artworks, id) = <<>>
        /\ \A i \in DOMAIN favorites : favorites[i].artworkId # id

IdRoutes == {"get", "update", "delete", "like", "liked", "favorite", "favorited"}

\* C6: a request with a malformed id to an id-taking route is answered 400
\* and makes no call on either collection.
C6_MalformedIdIs400 ==
    (last.route \in IdRoutes /\ ~ObjectIdIsValid(last.id)) =>
        (last.status = 400 /\ last.calls = <<>>)

\* C7: a get, update, delete, like-toggle or liked-state request whose
\* well-formed id matches no artwork is answered 404 and none of its store
\* calls changes a collection: the like toggle stops after its findOne and
\* the delete makes no deleteMany.
C7_UnknownIdIs404 ==
    (/\ last.route \in {"get", "update", "delete", "like", "liked"}
     /\ ObjectIdIsValid(last.id)
     /\ last.found = "none") =>
        /\ last.status = 404
        /\ ~last.wrote
        /\ ~Includes(last.calls, "favorites.deleteMany")
        /\ last.route = "like" => last.calls = <<"artworks.findOne">>
        /\ last.solo => (last.post = last.pre)

\* An update of an id that matches none, while another artwork is stored.
C7_Witness ==
    /\ last.route = "update" /\ ObjectIdIsValid(last.id)
    /\ last.found = "none" /\ last.status = 404
    /\ artworks # <<>>

\* C8: the likesCount of every artwork is never negative, overlapping like
\* toggles included.
C8_LikesCountNonNegative ==
    \A i \in DOMAIN artworks : artworks[i].likesCount >= 0

IsError(x) == x.route # "none" /\ x.status # 200

\* C9: every error response has status 400, 404 or 500 and a body
\* {success: false, error: <string>}.
C9_ErrorEnvelope ==
    IsError(last) =>
        /\ last.status \in {400, 404, 500}
        /\ last.body.kind = "object"
        /\ last.body.success = "false"
        /\ "error" \in last.body.keys

IsSuccess(x) == x.route # "none" /\ x.status = 200

\* C10 as stated: every success response but GET /arts' is an envelope with
\* success true, and GET /arts alone answers with a bare array.
C10_Original ==
    IsSuccess(last) =>
        IF last.route = "arts"
        THEN last.body.kind = "array"
        ELSE last.body.kind = "object" /\ last.body.success = "true"

\* C10 as amended: GET /arts and GET /api/artworks/featured answer with a
\* bare array, GET / and GET /health with a body that has no success field,
\* and every other route with an envelope whose success is true.
C10_SuccessEnvelope ==
    IsSuccess(last) =>
        IF last.route \in {"arts", "featured"}
        THEN last.body.kind = "array"
        ELSE IF last.route \in {"root", "health"}
        THEN last.body.kind \in {"text", "object"} /\ "success" \notin last.body.keys
        ELSE last.body.kind = "object" /\ last.body.success = "true"

\* The featured listing answers with a bare array of a stored artwork.
C10_Witness ==
    /\ last.route = "featured" /\ last.status = 200
    /\ last.body.kind = "array" /\ last.body.data # <<>>

\* A number that is not NaN and is zero or more.
NonNegative(n) == ~n.nan /\ (~n.neg \/ n.mant = 0)

\* The price the specification gives a request's price field: 0 when the
\* field is absent or does not parse as a number, the parsed number otherwise.
SpecifiedPrice(x) ==
    IF x.type = "undefined" \/ ParseFloat(x).nan THEN Zero ELSE ParseFloat(x)

IsWrite(x) == x.route \in {"create", "update"} /\ x.status = 200

\* C11: a create or an update stores the price 0 when the request's price is
\* absent or not parseable as a number and the parsed number otherwise, and
\* every stored price is a non-negative number.
C11_PriceIsParsedOrZero ==
    /\ \A i \in DOMAIN artworks : NonNegative(artworks[i].price)
    /\ IsWrite(last) =>
           \A i \in DOMAIN artworks :
               artworks[i]._id = last.id =>
                   artworks[i].price = SpecifiedPrice(last.input.price)

\* How far likesCount is from the number of distinct users in likedBy.
Drift(v) == v.likes - v.users

\* Two like toggles of one user on one artwork that were in flight together
\* and with no other request, and read the same isLiked: r2, the later to
\* arrive, read likedBy before r1 wrote, and each of them sends the same
\* update.
SameToggle(r1, r2) ==
    /\ r1.route = "like" /\ r2.route = "like"
    /\ r1.rid < r2.rid
    /\ r1.id = r2.id /\ r1.userId = r2.userId
    /\ r1.peers = {r2.rid} /\ r2.peers = {r1.rid}

\* ... both in flight, after the updateOne of each
Raced(r1, r2) ==
    /\ SameToggle(r1, r2)
    /\ r1.isLiked = r2.isLiked
    /\ r1.pc = "reread" /\ r2.pc = "reread"

\* ... both answered with success, x first and y after it
RacedResponses(x, y) ==
    /\ SameToggle(x, y) \/ SameToggle(y, x)
    /\ x.status = 200 /\ y.status = 200
    /\ x.flag = y.body.flag

\* The collections moved from view `pre` by two updates of direction dir:
\* likesCount by 2, its distance from the number of users by 1.
DriftedBy(pre, v, dir) ==
    /\ v.likes = pre.likes + 2 * dir
    /\ Drift(v) = Drift(pre) + dir
    /\ (pre.likes = pre.users) => (v.likes # v.users)

\* C12: two overlapping like toggles of one user on one artwork that both
\* read likedBy before either writes both apply the same update: likesCount
\* moves by 2 and its distance from the number of distinct users in likedBy
\* by 1, so an equality that held before is lost; and a later toggle by that
\* user, run alone, leaves that distance as it finds it, so does not
\* restore the equality.
C12_LikeRaceDrifts ==
    /\ \A r1, r2 \in inflight :
           Raced(r1, r2) =>
               DriftedBy(r2.pre, View(artworks, favorites, r2.id, r2.userId),
                         IF r2.isLiked THEN -1 ELSE 1)
    /\ RacedResponses(prev, last) =>
           DriftedBy(IF prev.rid < last.rid THEN last.pre ELSE prev.pre,
                     last.post, IF last.body.flag THEN 1 ELSE -1)
    /\ IsToggle(last, "like") =>
           /\ Drift(last.post) = Drift(last.pre)
           /\ (last.pre.likes # last.pre.users) => (last.post.likes # last.post.users)

\* After two toggles of a user have raced on an artwork whose likesCount
\* equalled its number of users, the user toggles once more, alone, and the
\* two still differ.
C12_Witness ==
    /\ IsToggle(last, "like")
    /\ prev.route = "like" /\ prev.status = 200 /\ prev.peers # {}
    /\ prev.id = last.id /\ prev.userId = last.userId
    /\ Drift(prev.pre) = 0
    /\ Drift(last.pre) # 0 /\ Drift(last.post) # 0

\* The steps that add to the favorites add one record, whose snapshot is
\* the artwork an inserting toggle holds; the others keep them or remove
\* records, and none rewrites a record.
FavoritesStep ==
    \/ favorites' = favorites
    \/ \E r \in inflight :
           /\ r.route = "favorite" /\ r.pc = "insert"
           /\ Len(favorites') = Len(favorites) + 1
           /\ SubSeq(favorites', 1, Len(favorites)) = favorites
           /\ favorites'[Len(favorites')].artworkId = r.id
           /\ favorites'[Len(favorites')].userId = r.userId
           /\ favorites'[Len(favorites')].artwork = r.artwork
    \/ /\ Len(favorites') < Len(favorites)
       /\ \A j \in DOMAIN favorites' : \E i \in DOMAIN favorites :
              favorites'[j] = favorites[i]

\* The artwork a toggle holds for its insert is the record of its id as the
\* artworks have it in the step of the toggle's read, null if there is none,
\* and stays that while the toggle waits.
ReadStep ==
    \A r \in inflight, q \in inflight' :
        (r.route = "favorite" /\ q.rid = r.rid /\ q.pc = "insert") =>
            IF r.pc = "insert" THEN q.artwork = r.artwork
            ELSE /\ FindArtwork(artworks, r.id) = <<>> => q.artwork = <<>>
                 /\ \A i \in DOMAIN artworks :
                        artworks[i]._id = r.id => q.artwork = <<artworks[i]>>

\* data lists the snapshots of the records of user u, each record once,
\* newest record first.
ListsSnapshots(data, favs, u) ==
    LET F == SelectSeq(favs, LAMBDA f : f.userId = u)
    IN  /\ Len(data) = Len(F)
        /\ \E p \in [DOMAIN F -> DOMAIN F] :
               /\ \A k, l \in DOMAIN F : p[k] = p[l] => k = l
               /\ \A k \in DOMAIN F : data[k] = F[p[k]].artwork
               /\ \A k \in DOMAIN F :
                      k < Len(F) => F[p[k]].createdAt >= F[p[k + 1]].createdAt

ListStep ==
    (last'.rid # last.rid /\ last'.route = "userFavorites" /\ last'.status = 200)
        => ListsSnapshots(last'.body.data, favorites, last'.userId)

\* C13: the snapshot in a Favorite record is the artwork record as the
\* favorite toggle read it; no step that changes an artwork (an update, a
\* like toggle) changes a Favorite record, and no step rewrites one; and the
\* list of a user's favorites answers with the stored snapshot of each of
\* the user's records, whatever the artworks hold by then.
C13_SnapshotIsFrozen ==
    [][/\ FavoritesStep
       /\ ReadStep
       /\ (artworks' # artworks) => (favorites' = favorites)
       /\ ListStep]_vars

\* A list of favorites answers with a snapshot that differs from the
\* artwork as it is stored by then.
C13_Witness ==
    /\ last.route = "userFavorites" /\ last.status = 200
    /\ \E k \in DOMAIN last.body.data :
           /\ last.body.data[k] # <<>>
           /\ FindArtwork(artworks, last.body.data[k][1]._id) # <<>>
           /\ FindArtwork(artworks, last.body.data[k][1]._id) # last.body.data[k]

\* The request a step belongs to: the one that arrives (it is in flight, or
\* has been answered at once), or the one in flight that resumes.
Arrives == clock' # clock

Acting ==
    IF Arrives
    THEN IF \E q \in inflight' : q.rid = clock'
         THEN CHOOSE q \in inflight' : q.rid = clock'
         ELSE last'
    ELSE CHOOSE r \in inflight : r \notin inflight'

Acts(route) ==
    /\ Arrives \/ \E r \in inflight : r \notin inflight'
    /\ Acting.route = route

\* The documents of the artworks stay in place, and those of other ids than
\* id stay as they are.
OthersKept(id) ==
    /\ Len(artworks') = Len(artworks)
    /\ \A i \in DOMAIN artworks :
           /\ artworks'[i]._id = artworks[i]._id
           /\ artworks[i]._id # id => artworks'[i] = artworks[i]

Occurrences(likedBy, v) == Cardinality({k \in DOMAIN likedBy : likedBy[k] = v})

\* C14: no step of a like toggle by user u on an artwork changes whether,
\* or how often, another user is in that artwork's likedBy, or changes
\* another artwork or a Favorite record, whatever other requests it overlaps
\* with; and no step of an update changes the artwork's likesCount, likedBy,
\* userEmail or createdAt, or another artwork or a Favorite record.
C14_TogglesAndUpdatesKeepTheRest ==
    [][/\ Acts("like") =>
              /\ favorites' = favorites
              /\ OthersKept(Acting.id)
              /\ \A i \in DOMAIN artworks, v \in Users \ {Acting.userId} :
                     /\ Includes(artworks'[i].likedBy, v) = Includes(artworks[i].likedBy, v)
                     /\ Occurrences(artworks'[i].likedBy, v) = Occurrences(artworks[i].likedBy, v)
       /\ Acts("update") =>
              /\ favorites' = favorites
              /\ OthersKept(Acting.id)
              /\ \A i \in DOMAIN artworks :
                     /\ artworks'[i].likesCount = artworks[i].likesCount
                     /\ artworks'[i].likedBy = artworks[i].likedBy
                     /\ artworks'[i].userEmail = artworks[i].userEmail
                     /\ artworks'[i].createdAt = artworks[i].createdAt]_vars

\* A like toggle of one user, overlapping another request, has been answered
\* with success on an artwork that another user likes, and both are in its
\* likedBy.
C14_Witness ==
    /\ last.route = "like" /\ last.status = 200 /\ last.peers # {}
    /\ last.body.flag
    /\ \E i \in DOMAIN artworks :
           /\ artworks[i]._id = last.id
           /\ Includes(artworks[i].likedBy, last.userId)
           /\ \E v \in Users \ {last.userId} : Includes(artworks[i].likedBy, v)

====
